---- MODULE Spec2Model ----
(***************************************************************************)
(* The two report scripts of the repository as one state machine:          *)
(*   export_pt_delay_excel.py     (script = "stop": stop-delay report)     *)
(*   get_table_of_old_methode.py  (script = "veh":  vehicle-duration)      *)
(* A run is one execution of main() of one of the two scripts over a       *)
(* directory listing, the files' contents and the --sims argument.         *)
(***************************************************************************)
EXTENDS Integers, Sequences, FiniteSets, TLC

VARIABLES
  script,        \* which main() runs: "stop" or "veh"
  sims,          \* args.sims
  dir,           \* os.listdir(simdir) in listing order: <<[name, data]>>
  baselineFile,  \* content of args.baseline (vehicle-duration script)
  pc,            \* position in main()
  sim,           \* loop variable of the baseline loop (stop-delay script)
  baselines,     \* baselines: sim -> parsed baseline; baseline dict (veh)
  index,         \* value_to_simpaths / value_to_sims
  values,        \* values / all_values
  vi,            \* position of the per-value loop in values (1-based)
  sheets,        \* to_excel calls so far, in order: <<[name, rows]>>
  summaries,     \* summaries list
  artifact,      \* the output workbook: "none", "open", "saved" or "failed"
  exit,          \* "running", "ok" (status 0) or "error" (non-zero status)
  message        \* what the run printed last / died with

vars == <<script, sims, dir, baselineFile, pc, sim, baselines, index, values,
          vi, sheets, summaries, artifact, exit, message>>

(***************************************************************************)
(* Bounds of the model.                                                    *)
(***************************************************************************)
MaxSims == 2
MaxFiles == 3
MaxRecs == 3

(***************************************************************************)
(* Numbers.  A Python float is modelled as an exact rational n/d in lowest *)
(* terms or as NaN; every comparison with NaN is false, every arithmetic   *)
(* operation on NaN yields NaN.                                            *)
(***************************************************************************)
Abs(x) == IF x < 0 THEN -x ELSE x

RECURSIVE GCD(_, _)
GCD(a, b) == IF b = 0 THEN a ELSE GCD(b, a % b)

NaN == [nan |-> TRUE, n |-> 0, d |-> 1]
Norm(n, d) ==
  LET g == GCD(Abs(n), d)
  IN  [nan |-> FALSE, n |-> n \div g, d |-> d \div g]
F(k) == [nan |-> FALSE, n |-> k, d |-> 1]
FAdd(a, b) == IF a.nan \/ b.nan THEN NaN ELSE Norm(a.n * b.d + b.n * a.d, a.d * b.d)
FSub(a, b) == IF a.nan \/ b.nan THEN NaN ELSE Norm(a.n * b.d - b.n * a.d, a.d * b.d)
FMulFrac(a, p, q) == IF a.nan THEN NaN ELSE Norm(a.n * p, a.d * q)
FDivInt(a, k) == FMulFrac(a, 1, k)
FLe(a, b) == ~a.nan /\ ~b.nan /\ a.n * b.d <= b.n * a.d
FLt(a, b) == ~a.nan /\ ~b.nan /\ a.n * b.d < b.n * a.d

\* max(1, n) of line 119
Max(a, b) == IF a >= b THEN a ELSE b
Min(a, b) == IF a <= b THEN a ELSE b

(***************************************************************************)
(* Text.  An attribute is absent or carries a text.  A numeric text is a   *)
(* decimal number, "nan", or something float() rejects.                    *)
(***************************************************************************)
Absent(T) == [present |-> FALSE, text |-> T]
Attr(t) == [present |-> TRUE, text |-> t]
NumText(k) == [form |-> "num", n |-> k]
NanText == [form |-> "nan", n |-> 0]
JunkText == [form |-> "junk", n |-> 0]

\* float(s): raises ValueError on junk, parses "nan" to NaN
ParseFloat(t) ==
  CASE t.form = "num" -> [ok |-> TRUE, val |-> F(t.n)]
    [] t.form = "nan" -> [ok |-> TRUE, val |-> NaN]
    [] OTHER -> [ok |-> FALSE, val |-> NaN]

\* el.attrib.get(name, default)
AttrGet(a, default) == IF a.present THEN a.text ELSE default

\* el.attrib.get(a) or el.attrib.get(b) or "": an absent or empty text is falsy
AttrOr(a, b, empty) ==
  IF a.present /\ a.text # empty THEN a.text
  ELSE IF b.present /\ b.text # empty THEN b.text
  ELSE empty

\* int(m.group(k)) of a captured \d+ (a sequence of digits)
RECURSIVE DigitsToInt(_)
DigitsToInt(ds) ==
  IF ds = <<>> THEN 0
  ELSE 10 * DigitsToInt(SubSeq(ds, 1, Len(ds) - 1)) + ds[Len(ds)]

\* str(k) of an int k >= 0, as in the f-strings of _find_baseline_path
RECURSIVE IntToDigits(_)
IntToDigits(k) ==
  IF k < 10 THEN <<k>> ELSE Append(IntToDigits(k \div 10), k % 10)

\* str(k) as characters: the sheet name of a value
DigitChar(d) ==
  CASE d = 0 -> "0" [] d = 1 -> "1" [] d = 2 -> "2" [] d = 3 -> "3" [] d = 4 -> "4"
    [] d = 5 -> "5" [] d = 6 -> "6" [] d = 7 -> "7" [] d = 8 -> "8" [] OTHER -> "9"
Str(k) == LET ds == IntToDigits(k) IN [i \in DOMAIN ds |-> DigitChar(ds[i])]

SummaryName == <<"s", "u", "m", "m", "a", "r", "y">>

(***************************************************************************)
(* Dictionaries keep insertion order: keys is the order, at the mapping.   *)
(***************************************************************************)
EmptyDict == [keys |-> <<>>, at |-> <<>>]
Range(s) == {s[i] : i \in DOMAIN s}
Has(d, k) == k \in Range(d.keys)
Put(d, k, v) ==
  IF Has(d, k) THEN [d EXCEPT !.at = [x \in DOMAIN d.at |-> IF x = k THEN v ELSE d.at[x]]]
  ELSE [keys |-> Append(d.keys, k),
        at |-> [x \in (DOMAIN d.at) \cup {k} |-> IF x = k THEN v ELSE d.at[x]]]

\* list.sort() of a list shorter than 64 floats: the leading run is found by
\* comparing neighbours with < and reversed when it descends, then every
\* later element is inserted at the place a binary search with < finds.
\* Ascending for numbers; a NaN (every < false) can leave numbers unordered.
Reverse(s) == [i \in DOMAIN s |-> s[Len(s) + 1 - i]]

\* the length of the leading run, k of its elements being known
RECURSIVE RunEnd(_, _, _)
RunEnd(l, k, descending) ==
  IF k >= Len(l) THEN k
  ELSE IF FLt(l[k + 1], l[k]) = descending THEN RunEnd(l, k + 1, descending)
  ELSE k

\* the number of elements of s that stay before pivot
RECURSIVE Bisect(_, _, _, _)
Bisect(s, pivot, lo, hi) ==
  LET p == lo + ((hi - lo) \div 2)
      lo2 == IF FLt(pivot, s[p + 1]) THEN lo ELSE p + 1
      hi2 == IF FLt(pivot, s[p + 1]) THEN p ELSE hi
  IN  IF lo2 < hi2 THEN Bisect(s, pivot, lo2, hi2) ELSE lo2

Insert(s, x) ==
  LET l == Bisect(s, x, 0, Len(s))
  IN  SubSeq(s, 1, l) \o <<x>> \o SubSeq(s, l + 1, Len(s))

RECURSIVE BinarySort(_, _)
BinarySort(s, rest) ==
  IF rest = <<>> THEN s ELSE BinarySort(Insert(s, rest[1]), Tail(rest))

SortFloats(l) ==
  IF Len(l) < 2 THEN l
  ELSE LET descending == FLt(l[2], l[1])
           n == RunEnd(l, 2, descending)
           run == IF descending THEN Reverse(SubSeq(l, 1, n)) ELSE SubSeq(l, 1, n)
       IN  BinarySort(run, SubSeq(l, n + 1, Len(l)))

(***************************************************************************)
(* File names.  kind is the pattern the name has:                          *)
(*   "stop_baseline"  stop_events_baseline_<s>.xml                         *)
(*   "stop_events"    stop_events_<v>_<s>.xml       (STOP_MIXED_RE)        *)
(*   "tripinfo"       4_<v>_<s>_<tag>_sim_output.xml (TRIPINFO_RE)         *)
(*   "other"          anything else                                        *)
(* v and s are the digit sequences at the places of the two \d+ groups.    *)
(***************************************************************************)
Name(kind, v, s, tag) == [kind |-> kind, v |-> v, s |-> s, tag |-> tag]

\* STOP_MIXED_RE.match(name)
StopMixedMatch(name) == name.kind = "stop_events"

\* TRIPINFO_RE.match(name)
TripinfoMatch(name) == name.kind = "tripinfo"

\* A file that _parse_root cannot parse (it raises), and the path None
BadFile == [ok |-> FALSE, recs |-> <<>>]

\* The file a path names; path 0 is None
ReadPath(listing, p) == IF p = 0 THEN BadFile ELSE listing[p].data

(***************************************************************************)
(* export_pt_delay_excel.py                                                *)
(***************************************************************************)
ZeroText == NumText(0)

RECURSIVE CollectStopinfo(_, _, _)
CollectStopinfo(recs, i, delays) ==
  IF i > Len(recs) THEN delays
  ELSE LET el == recs[i]
           stop_id == AttrOr(el.busStop, el.stop, "")
           f == ParseFloat(AttrGet(el.delay, ZeroText))
       IN  IF stop_id = "" THEN CollectStopinfo(recs, i + 1, delays)
           ELSE IF ~f.ok THEN CollectStopinfo(recs, i + 1, delays)
           ELSE CollectStopinfo(recs, i + 1,
                  Put(delays, stop_id,
                      IF Has(delays, stop_id) THEN Append(delays.at[stop_id], f.val)
                      ELSE <<f.val>>))

parse_stop_delays(file) ==
  IF ~file.ok THEN EmptyDict
  ELSE LET delays == CollectStopinfo(file.recs, 1, EmptyDict)
       IN  [keys |-> delays.keys,
            at |-> [k \in DOMAIN delays.at |-> SortFloats(delays.at[k])]]

\* range(start, stop, step) as a list
RECURSIVE PyRange(_, _, _)
PyRange(start, stop, step) ==
  IF start >= stop THEN <<>> ELSE <<start>> \o PyRange(start + step, stop, step)

\* _generate_values with the stop of each range exclusive
_generate_values_exclusive == PyRange(1000, 33000, 1000) \o PyRange(36000, 58000, 2000)

_generate_values == PyRange(1000, 33000 + 1, 1000) \o PyRange(36000, 58000 + 1, 2000)

\* Position in the listing of the file called name, 0 when there is none
PathOf(listing, name) ==
  IF \E i \in DOMAIN listing : listing[i].name = name
  THEN CHOOSE i \in DOMAIN listing : listing[i].name = name
  ELSE 0

\* _find_baseline_path trying the value-0 name first
_find_baseline_path_legacy_first(listing, sim_index) ==
  LET candidates == << Name("stop_events", <<0>>, IntToDigits(sim_index), ""),
                       Name("stop_baseline", <<>>, IntToDigits(sim_index), "") >>
  IN  IF PathOf(listing, candidates[1]) # 0 THEN PathOf(listing, candidates[1])
      ELSE IF PathOf(listing, candidates[2]) # 0 THEN PathOf(listing, candidates[2])
      ELSE 0

_find_baseline_path(listing, sim_index) ==
  LET candidates == << Name("stop_baseline", <<>>, IntToDigits(sim_index), ""),
                       Name("stop_events", <<0>>, IntToDigits(sim_index), "") >>
  IN  IF PathOf(listing, candidates[1]) # 0 THEN PathOf(listing, candidates[1])
      ELSE IF PathOf(listing, candidates[2]) # 0 THEN PathOf(listing, candidates[2])
      ELSE 0

\* lines 106-113: value_to_simpaths, keyed by <<value, sim>>
RECURSIVE DiscoverMixed(_, _, _)
DiscoverMixed(listing, i, m) ==
  IF i > Len(listing) THEN m
  ELSE LET name == listing[i].name
           key == <<DigitsToInt(name.v), DigitsToInt(name.s)>>
       IN  IF ~StopMixedMatch(name) THEN DiscoverMixed(listing, i + 1, m)
           ELSE DiscoverMixed(listing, i + 1,
                  [k \in (DOMAIN m) \cup {key} |-> IF k = key THEN i ELSE m[k]])

\* value_to_simpaths.get(value, {}).get(sim)
SimPath(m, value, s) == IF <<value, s>> \in DOMAIN m THEN m[<<value, s>>] ELSE 0

\* OccurrenceRows with the occurrence left zero-based
OccurrenceRowsZeroBased(value, s, stop_id, base_list, mix_list) ==
  [idx \in 1..Min(Len(base_list), Len(mix_list)) |->
     [value |-> value, sim |-> s, stop |-> stop_id, occurrence |-> idx - 1,
      delay_baseline_s |-> base_list[idx],
      delay_mixed_s |-> mix_list[idx],
      delay_delta_s |-> FSub(mix_list[idx], base_list[idx])]]

\* lines 133-143: the rows of one stop id
OccurrenceRows(value, s, stop_id, base_list, mix_list) ==
  [idx \in 1..Min(Len(base_list), Len(mix_list)) |->
     [value |-> value, sim |-> s, stop |-> stop_id, occurrence |-> idx,
      delay_baseline_s |-> base_list[idx],
      delay_mixed_s |-> mix_list[idx],
      delay_delta_s |-> FSub(mix_list[idx], base_list[idx])]]

\* lines 129-143: for stop_id, base_list in base.items()
RECURSIVE AlignStops(_, _, _, _, _)
AlignStops(value, s, base, mixed, i) ==
  IF i > Len(base.keys) THEN <<>>
  ELSE LET stop_id == base.keys[i]
       IN  IF ~Has(mixed, stop_id) \/ mixed.at[stop_id] = <<>>
           THEN AlignStops(value, s, base, mixed, i + 1)
           ELSE OccurrenceRows(value, s, stop_id, base.at[stop_id], mixed.at[stop_id])
                \o AlignStops(value, s, base, mixed, i + 1)

RECURSIVE AlignSims(_, _, _, _, _, _)

\* AlignSims leaving the loop (break) at a replicate without perturbed delays
AlignSimsBreak(value, s, n, listing, m, bl) ==
  IF s > n THEN <<>>
  ELSE LET mixed == parse_stop_delays(ReadPath(listing, SimPath(m, value, s)))
       IN  IF mixed.keys = <<>> THEN <<>>
           ELSE IF s \notin DOMAIN bl
           THEN AlignSims(value, s + 1, n, listing, m, bl)
           ELSE AlignStops(value, s, bl[s], mixed, 1)
                \o AlignSims(value, s + 1, n, listing, m, bl)

\* lines 122-143: for sim in range(1, args.sims + 1)
AlignSims(value, s, n, listing, m, bl) ==
  IF s > n THEN <<>>
  ELSE LET mixed == parse_stop_delays(ReadPath(listing, SimPath(m, value, s)))
       IN  IF s \notin DOMAIN bl
           THEN AlignSims(value, s + 1, n, listing, m, bl)
           ELSE AlignStops(value, s, bl[s], mixed, 1)
                \o AlignSims(value, s + 1, n, listing, m, bl)

(***************************************************************************)
(* pandas: Series.mean, Series.describe(percentiles=[0.1, 0.5, 0.9]) and   *)
(* DataFrame.sort_values, as the two scripts call them.  NaN entries are   *)
(* skipped by count, mean, the percentiles, min and max.                   *)
(***************************************************************************)
RECURSIVE FSum(_)
FSum(xs) == IF xs = <<>> THEN F(0) ELSE FAdd(xs[1], FSum(Tail(xs)))

RECURSIVE DropNaN(_)
DropNaN(xs) ==
  IF xs = <<>> THEN <<>>
  ELSE IF xs[1].nan THEN DropNaN(Tail(xs)) ELSE <<xs[1]>> \o DropNaN(Tail(xs))

\* mean of the entries that are not NaN (NaN when there is none)
Mean(xs) ==
  LET ys == DropNaN(xs)
  IN  IF ys = <<>> THEN NaN ELSE FDivInt(FSum(ys), Len(ys))

\* the q/10 quantile of an ascending list, linear interpolation
Quantile(ys, q) ==
  LET h == (Len(ys) - 1) * q
      lo == (h \div 10) + 1
      r == h % 10
  IN  IF r = 0 THEN ys[lo]
      ELSE FAdd(ys[lo], FMulFrac(FSub(ys[lo + 1], ys[lo]), r, 10))

Describe(xs) ==
  LET ys == SortFloats(DropNaN(xs))
  IN  IF ys = <<>>
      THEN [count |-> 0, mean |-> NaN, p50 |-> NaN, p10 |-> NaN, p90 |-> NaN,
            min |-> NaN, max |-> NaN]
      ELSE [count |-> Len(ys), mean |-> Mean(ys), p50 |-> Quantile(ys, 5),
            p10 |-> Quantile(ys, 1), p90 |-> Quantile(ys, 9),
            min |-> ys[1], max |-> ys[Len(ys)]]

\* SummaryRow without the branch for an empty table
SummaryRowNoDefault(value, xs) ==
  LET s == Describe(xs)
  IN  [value |-> value, count |-> s.count, mean |-> s.mean, median |-> s.p50,
       p10 |-> s.p10, p90 |-> s.p90, min |-> s.min, max |-> s.max]

\* the summaries.append of both scripts (the statistic columns are named
\* *_delta_s in one script and *_delay_s in the other)
SummaryRow(value, xs) ==
  IF Len(xs) > 0
  THEN LET s == Describe(xs)
       IN  [value |-> value, count |-> s.count, mean |-> s.mean, median |-> s.p50,
            p10 |-> s.p10, p90 |-> s.p90, min |-> s.min, max |-> s.max]
  ELSE [value |-> value, count |-> 0, mean |-> F(0), median |-> F(0),
        p10 |-> F(0), p90 |-> F(0), min |-> F(0), max |-> F(0)]

\* pd.DataFrame(summaries).sort_values("value")
RECURSIVE InsertByValue(_, _)
InsertByValue(s, x) ==
  IF s = <<>> THEN <<x>>
  ELSE IF x.value < s[1].value THEN <<x>> \o s
  ELSE <<s[1]>> \o InsertByValue(Tail(s), x)

RECURSIVE SortByValue(_)
SortByValue(s) ==
  IF s = <<>> THEN <<>>
  ELSE InsertByValue(SortByValue(SubSeq(s, 1, Len(s) - 1)), s[Len(s)])

Column(rows, col) == [i \in DOMAIN rows |-> rows[i][col]]

SelectSeq2(rows, stop_id) == SelectSeq(rows, LAMBDA r : r.stop = stop_id)

\* lines 154-160: the per-stop mean delta, merged onto every row of the stop
MergeStopMeans(rows) ==
  [i \in DOMAIN rows |->
     [value |-> rows[i].value, sim |-> rows[i].sim, stop |-> rows[i].stop,
      occurrence |-> rows[i].occurrence,
      delay_baseline_s |-> rows[i].delay_baseline_s,
      delay_mixed_s |-> rows[i].delay_mixed_s,
      delay_delta_s |-> rows[i].delay_delta_s,
      stop_avg_delta_s |->
        Mean(Column(SelectSeq2(rows, rows[i].stop), "delay_delta_s"))]]

(***************************************************************************)
(* get_table_of_old_methode.py                                             *)
(* Texts of id and type attributes are sequences of characters.            *)
(***************************************************************************)
Digits == {"0", "1", "2", "3", "4", "5", "6", "7", "8", "9"}

\* str.isdigit(): non-empty and every character a digit
IsDigit(t) == t # <<>> /\ \A i \in DOMAIN t : t[i] \in Digits

\* str.lower(), on the letters the model's texts use
LowerChar(c) ==
  CASE c = "B" -> "b" [] c = "U" -> "u" [] c = "S" -> "s" [] c = "C" -> "c"
    [] c = "A" -> "a" [] c = "R" -> "r" [] OTHER -> c
Lower(t) == [i \in DOMAIN t |-> LowerChar(t[i])]

\* sub in t
Contains(sub, t) ==
  \E i \in 0..(Len(t) - Len(sub)) : SubSeq(t, i + 1, i + Len(sub)) = sub

\* a or b for two optional attributes: the first truthy one, else b's value
\* (which may be None or "")
TypeOf(a, b) ==
  IF a.present /\ a.text # <<>> THEN [none |-> FALSE, text |-> a.text]
  ELSE IF b.present THEN [none |-> FALSE, text |-> b.text]
  ELSE [none |-> TRUE, text |-> <<>>]

\* lines 48-49
IsBus(el, vid) ==
  LET vtype == TypeOf(el.vType, el.vtype)
  IN  \/ ~vtype.none /\ Contains(<<"b", "u", "s">>, Lower(vtype.text))
      \/ vtype.none /\ ~IsDigit(vid)

\* lines 52-62: [ok |-> FALSE] when a float() raises
DurationOf(el) ==
  IF el.duration.present THEN ParseFloat(el.duration.text)
  ELSE LET arr == ParseFloat(AttrGet(el.arrival, NanText))
           dep == ParseFloat(AttrGet(el.depart, NanText))
       IN  IF ~arr.ok \/ ~dep.ok THEN [ok |-> FALSE, val |-> NaN]
           ELSE [ok |-> TRUE, val |-> FSub(arr.val, dep.val)]

RECURSIVE CollectTripinfo(_, _, _)
CollectTripinfo(recs, i, durations) ==
  IF i > Len(recs) THEN durations
  ELSE LET el == recs[i]
           vid == AttrOr(el.id, el.tripid, <<>>)
           dur == DurationOf(el)
       IN  IF vid = <<>> THEN CollectTripinfo(recs, i + 1, durations)
           ELSE IF ~IsBus(el, vid) THEN CollectTripinfo(recs, i + 1, durations)
           ELSE IF ~dur.ok THEN CollectTripinfo(recs, i + 1, durations)
           ELSE IF FLe(dur.val, F(0)) THEN CollectTripinfo(recs, i + 1, durations)
           ELSE CollectTripinfo(recs, i + 1, Put(durations, vid, dur.val))

extract_pt_durations(file) ==
  IF ~file.ok THEN EmptyDict ELSE CollectTripinfo(file.recs, 1, EmptyDict)

\* list.sort(key=lambda t: t[0]) of (sim, path) pairs: stable
RECURSIVE InsertBySim(_, _)
InsertBySim(s, x) ==
  IF s = <<>> THEN <<x>>
  ELSE IF x.sim < s[1].sim THEN <<x>> \o s
  ELSE <<s[1]>> \o InsertBySim(Tail(s), x)

RECURSIVE SortBySim(_)
SortBySim(s) ==
  IF s = <<>> THEN <<>>
  ELSE InsertBySim(SortBySim(SubSeq(s, 1, Len(s) - 1)), s[Len(s)])

\* lines 71-77
RECURSIVE ScanTripinfo(_, _, _)
ScanTripinfo(listing, i, mapping) ==
  IF i > Len(listing) THEN mapping
  ELSE LET name == listing[i].name
           value == DigitsToInt(name.v)
           entry == [sim |-> DigitsToInt(name.s), path |-> i]
       IN  IF ~TripinfoMatch(name) THEN ScanTripinfo(listing, i + 1, mapping)
           ELSE ScanTripinfo(listing, i + 1,
                  Put(mapping, value,
                      IF Has(mapping, value) THEN Append(mapping.at[value], entry)
                      ELSE <<entry>>))

discover_value_to_sims(listing) ==
  LET mapping == ScanTripinfo(listing, 1, EmptyDict)
  IN  [keys |-> mapping.keys,
       at |-> [value \in DOMAIN mapping.at |-> SortBySim(mapping.at[value])]]

\* sorted(value_to_sims.keys())
RECURSIVE InsertInt(_, _)
InsertInt(s, x) ==
  IF s = <<>> THEN <<x>>
  ELSE IF x < s[1] THEN <<x>> \o s
  ELSE <<s[1]>> \o InsertInt(Tail(s), x)

RECURSIVE Sorted(_)
Sorted(s) ==
  IF s = <<>> THEN <<>> ELSE InsertInt(Sorted(SubSeq(s, 1, Len(s) - 1)), s[Len(s)])

\* PerSimFiles taking the files of every value
RECURSIVE ConcatAll(_, _)
ConcatAll(mapping, i) ==
  IF i > Len(mapping.keys) THEN <<>>
  ELSE mapping.at[mapping.keys[i]] \o ConcatAll(mapping, i + 1)
PerSimFilesAll(mapping, value) == ConcatAll(mapping, 1)

\* line 105
PerSimFiles(mapping, value) == mapping.at[value]

\* lines 111-113: the durations of one file added to the accumulators
RECURSIVE AddDurations(_, _, _)
AddDurations(durs, i, acc) ==
  IF i > Len(durs.keys) THEN acc
  ELSE LET vid == durs.keys[i]
           old == IF Has(acc, vid) THEN acc.at[vid] ELSE [sum |-> F(0), count |-> 0]
       IN  AddDurations(durs, i + 1,
             Put(acc, vid, [sum |-> FAdd(old.sum, durs.at[vid]), count |-> old.count + 1]))

\* lines 107-113: vessel_to_sum and vessel_to_count over the files of a value
RECURSIVE Accumulate(_, _, _, _)
Accumulate(listing, per_sim_files, i, acc) ==
  IF i > Len(per_sim_files) THEN acc
  ELSE Accumulate(listing, per_sim_files, i + 1,
         AddDurations(extract_pt_durations(ReadPath(listing, per_sim_files[i].path)), 1, acc))

\* lines 117-128
RECURSIVE VehicleRows(_, _, _)
VehicleRows(baseline, acc, i) ==
  IF i > Len(baseline.keys) THEN <<>>
  ELSE LET vid == baseline.keys[i]
           base_dur == baseline.at[vid]
       IN  IF ~Has(acc, vid) THEN VehicleRows(baseline, acc, i + 1)
           ELSE LET avg_dur == FDivInt(acc.at[vid].sum, Max(1, acc.at[vid].count))
                IN  << [vehicle_id |-> vid, baseline_duration_s |-> base_dur,
                        avg_duration_s |-> avg_dur,
                        delay_s |-> FSub(avg_dur, base_dur),
                        sims_count |-> acc.at[vid].count] >>
                    \o VehicleRows(baseline, acc, i + 1)

(***************************************************************************)
(* Inputs.  A directory is drawn from a universe of names, each with the   *)
(* contents it may have; at most MaxFiles names are present, listed in the *)
(* universe's order or in the reverse order (os.listdir fixes no order).   *)
(***************************************************************************)
NoText == Absent("")
StopInfo(busStop, stop, delay) == [busStop |-> busStop, stop |-> stop, delay |-> delay]
File(recs) == [ok |-> TRUE, recs |-> recs]

\* A: delays 3, 1 (file order), B: 8, 2, C: 4
StopsK1 ==
  File(<< StopInfo(Attr("A"), NoText, Attr(NumText(3))),
          StopInfo(Attr("B"), NoText, Attr(NumText(8))),
          StopInfo(Attr("A"), Attr("B"), Attr(NumText(1))),
          StopInfo(NoText, Attr("C"), Attr(NumText(4))),
          StopInfo(Attr("B"), NoText, Attr(NumText(2))) >>)

\* A: delays 5, 0 (no delay attribute), one unparseable delay; D: -1; one
\* record without a stop id; B: 6, 2, 7
StopsK2 ==
  File(<< StopInfo(Attr("A"), NoText, Attr(NumText(5))),
          StopInfo(Attr(""), Attr("A"), Absent(ZeroText)),
          StopInfo(Attr("A"), NoText, Attr(JunkText)),
          StopInfo(NoText, NoText, Attr(NumText(9))),
          StopInfo(Attr("B"), NoText, Attr(NumText(6))),
          StopInfo(Attr("D"), NoText, Attr(NumText(-1))),
          StopInfo(Attr("B"), NoText, Attr(NumText(2))),
          StopInfo(Attr("B"), NoText, Attr(NumText(7))) >>)

\* a well-formed file without a usable stopinfo record
StopsNone == File(<< StopInfo(NoText, NoText, Attr(NumText(1))) >>)

Entry(name, choices) == [name |-> name, choices |-> choices]

StopUniverse ==
  << Entry(Name("stop_baseline", <<>>, <<1>>, ""), {BadFile, StopsK1, StopsK2}),
     Entry(Name("stop_events", <<0>>, <<1>>, ""), {BadFile, StopsK2}),
     Entry(Name("stop_baseline", <<>>, <<2>>, ""), {StopsNone, StopsK1}),
     Entry(Name("stop_events", <<1, 0, 0, 0>>, <<1>>, ""), {BadFile, StopsK1, StopsK2}),
     Entry(Name("stop_events", <<1, 0, 0, 0>>, <<0, 1>>, ""), {StopsK1}),
     Entry(Name("stop_events", <<1, 0, 0, 0>>, <<2>>, ""), {BadFile, StopsK2}),
     Entry(Name("stop_events", <<3, 4, 0, 0, 0>>, <<1>>, ""), {StopsK1}) >>

NoChars == Absent(<<>>)
NoNum == Absent(ZeroText)
TripInfo(id, tripid, vType, vtype, duration, arrival, depart) ==
  [id |-> id, tripid |-> tripid, vType |-> vType, vtype |-> vtype,
   duration |-> duration, arrival |-> arrival, depart |-> depart]

Bus1 == <<"b", "1">>
Bus2 == <<"b", "2">>
Bus3 == <<"b", "3">>
BusType == Attr(<<"B", "u", "s">>)
CarType == Attr(<<"c", "a", "r">>)

\* the baseline: b1 10, b2 4, b3 7
TripsBase ==
  File(<< TripInfo(Attr(Bus1), NoChars, BusType, NoChars, Attr(NumText(10)), NoNum, NoNum),
          TripInfo(Attr(Bus2), NoChars, NoChars, NoChars, Attr(NumText(4)), NoNum, NoNum),
          TripInfo(NoChars, Attr(Bus3), NoChars, NoChars, NoNum, Attr(NumText(9)), Attr(NumText(2))) >>)

\* b1 11, a car with a numeric id, b2 5 (arrival - depart)
TripsA ==
  File(<< TripInfo(Attr(Bus1), NoChars, BusType, NoChars, Attr(NumText(11)), NoNum, NoNum),
          TripInfo(Attr(<<"7">>), NoChars, NoChars, NoChars, Attr(NumText(5)), NoNum, NoNum),
          TripInfo(Attr(Bus2), NoChars, NoChars, BusType, NoNum, Attr(NumText(9)), Attr(NumText(4))) >>)

\* b1 12, b2 with duration 0, b3 without duration and without arrival
TripsB ==
  File(<< TripInfo(Attr(Bus1), NoChars, NoChars, NoChars, Attr(NumText(12)), NoNum, NoNum),
          TripInfo(Attr(Bus2), NoChars, NoChars, NoChars, Attr(NumText(0)), NoNum, NoNum),
          TripInfo(Attr(Bus3), NoChars, NoChars, NoChars, NoNum, NoNum, Attr(NumText(3))) >>)

\* only records that are not kept
TripsNone ==
  File(<< TripInfo(Attr(Bus1), NoChars, CarType, NoChars, Attr(NumText(8)), NoNum, NoNum),
          TripInfo(Attr(Bus2), NoChars, NoChars, NoChars, Attr(JunkText), NoNum, NoNum) >>)

BaselineContents == {BadFile, TripsNone, TripsBase}

TripUniverse ==
  << Entry(Name("tripinfo", <<1, 0, 0, 0>>, <<1>>, "a"), {BadFile, TripsNone, TripsA, TripsB}),
     Entry(Name("tripinfo", <<1, 0, 0, 0>>, <<1>>, "b"), {TripsA, TripsB}),
     Entry(Name("tripinfo", <<1, 0, 0, 0>>, <<2>>, "a"), {BadFile, TripsA, TripsB}),
     Entry(Name("tripinfo", <<5, 0, 0>>, <<1>>, "a"), {TripsNone, TripsA, TripsB}),
     Entry(Name("stop_events", <<1, 0, 0, 0>>, <<1>>, ""), {TripsA}) >>

RECURSIVE Ascending(_)
Ascending(S) ==
  IF S = {} THEN <<>>
  ELSE LET m == CHOOSE x \in S : \A y \in S : x <= y
       IN  <<m>> \o Ascending(S \ {m})

\* the listing of the names at positions S of universe, with contents data
Listing(universe, S, data, rev) ==
  LET order == IF rev THEN Reverse(Ascending(S)) ELSE Ascending(S)
  IN  [i \in DOMAIN order |-> [name |-> universe[order[i]].name, data |-> data[order[i]]]]

AllChoices(universe) == UNION {universe[i].choices : i \in DOMAIN universe}

Directories(universe) ==
  { Listing(universe, t[1], t[2], t[3]) :
      t \in UNION { {<<S, data, r>> :
                       data \in {f \in [S -> AllChoices(universe)] :
                                   \A i \in S : f[i] \in universe[i].choices},
                       r \in BOOLEAN} :
                    S \in {T \in SUBSET (DOMAIN universe) : Cardinality(T) <= MaxFiles} } }

InitStop ==
  /\ script = "stop"
  /\ sims \in 1..MaxSims
  /\ dir \in Directories(StopUniverse)
  /\ baselineFile = BadFile
  /\ pc = "baselines"
  /\ sim = 1
  /\ baselines = <<>>
  /\ index = <<>>

InitVeh ==
  /\ script = "veh"
  /\ sims = MaxSims
  /\ dir \in Directories(TripUniverse)
  /\ baselineFile \in BaselineContents
  /\ pc = "baseline"
  /\ sim = 0
  /\ baselines = EmptyDict
  /\ index = EmptyDict

Init ==
  /\ InitStop \/ InitVeh
  /\ values = <<>>
  /\ vi = 1
  /\ sheets = <<>>
  /\ summaries = <<>>
  /\ artifact = "none"
  /\ exit = "running"
  /\ message = ""

(***************************************************************************)
(* export_pt_delay_excel.main                                              *)
(***************************************************************************)
\* lines 94-103: one iteration of the baseline loop
LoadBaseline ==
  /\ script = "stop" /\ pc = "baselines" /\ sim <= sims
  /\ LET p == _find_baseline_path(dir, sim)
         b == parse_stop_delays(ReadPath(dir, p))
     IN  /\ baselines' =
              IF p # 0 /\ b.keys # <<>>
              THEN [k \in (DOMAIN baselines) \cup {sim} |-> IF k = sim THEN b ELSE baselines[k]]
              ELSE baselines
         /\ message' =
              IF p = 0 THEN "Warning: missing baseline file"
              ELSE IF b.keys = <<>> THEN "Warning: no usable baseline delays"
              ELSE message
  /\ sim' = sim + 1
  /\ UNCHANGED <<script, sims, dir, baselineFile, pc, index, values, vi, sheets,
                 summaries, artifact, exit>>

\* lines 105-116
Discover ==
  /\ script = "stop" /\ pc = "baselines" /\ sim > sims
  /\ index' = DiscoverMixed(dir, 1, <<>>)
  /\ values' = _generate_values
  /\ pc' = "open"
  /\ UNCHANGED <<script, sims, dir, baselineFile, sim, baselines, vi, sheets,
                 summaries, artifact, exit, message>>

\* line 119: pd.ExcelWriter(args.out) opens the workbook or raises
OpenWriter ==
  /\ script = "stop" /\ pc = "open"
  /\ \/ /\ artifact' = "open" /\ pc' = "values"
        /\ UNCHANGED <<exit, message>>
     \/ /\ artifact' = "failed" /\ pc' = "done" /\ exit' = "error"
        /\ message' = "OSError: cannot open the output"
  /\ UNCHANGED <<script, sims, dir, baselineFile, sim, baselines, index, values,
                 vi, sheets, summaries>>

\* lines 121-143
ValueRows(value) == AlignSims(value, 1, sims, dir, index, baselines)

\* lines 120-185: one iteration of the value loop
ProcessValue ==
  /\ script = "stop" /\ pc = "values" /\ vi <= Len(values)
  /\ LET value == values[vi]
         rows == ValueRows(value)
         df == IF Len(rows) > 0 THEN MergeStopMeans(rows) ELSE rows
     IN  /\ sheets' = Append(sheets, [name |-> Str(value), rows |-> df])
         /\ summaries' = Append(summaries, SummaryRow(value, Column(df, "delay_delta_s")))
  /\ vi' = vi + 1
  /\ UNCHANGED <<script, sims, dir, baselineFile, pc, sim, baselines, index,
                 values, artifact, exit, message>>

\* lines 187-189
WriteSummary ==
  /\ script = "stop" /\ pc = "values" /\ vi > Len(values)
  /\ sheets' = IF summaries # <<>>
               THEN Append(sheets, [name |-> SummaryName, rows |-> SortByValue(summaries)])
               ELSE sheets
  /\ pc' = "close"
  /\ UNCHANGED <<script, sims, dir, baselineFile, sim, baselines, index, values,
                 vi, summaries, artifact, exit, message>>

\* the end of the with block (the workbook is saved; openpyxl refuses to
\* save a workbook without a sheet) and line 191
CloseWriter ==
  /\ script = "stop" /\ pc = "close"
  /\ IF sheets # <<>>
     THEN artifact' = "saved" /\ exit' = "ok" /\ message' = "Excel written"
     ELSE artifact' = "failed" /\ exit' = "error"
          /\ message' = "IndexError: At least one sheet must be visible"
  /\ pc' = "done"
  /\ UNCHANGED <<script, sims, dir, baselineFile, sim, baselines, index, values,
                 vi, sheets, summaries>>

(***************************************************************************)
(* get_table_of_old_methode.main                                           *)
(***************************************************************************)
\* lines 95-97
VLoadBaseline ==
  /\ script = "veh" /\ pc = "baseline"
  /\ baselines' = extract_pt_durations(baselineFile)
  /\ IF baselines'.keys = <<>>
     THEN /\ pc' = "done" /\ exit' = "error"
          /\ message' = "No baseline PT durations parsed"
     ELSE /\ pc' = "discover"
          /\ UNCHANGED <<exit, message>>
  /\ UNCHANGED <<script, sims, dir, baselineFile, sim, index, values, vi, sheets,
                 summaries, artifact>>

\* lines 99-100
VDiscover ==
  /\ script = "veh" /\ pc = "discover"
  /\ index' = discover_value_to_sims(dir)
  /\ values' = Sorted(index'.keys)
  /\ pc' = "open"
  /\ UNCHANGED <<script, sims, dir, baselineFile, sim, baselines, vi, sheets,
                 summaries, artifact, exit, message>>

\* line 103
VOpenWriter ==
  /\ script = "veh" /\ pc = "open"
  /\ \/ /\ artifact' = "open" /\ pc' = "values"
        /\ UNCHANGED <<exit, message>>
     \/ /\ artifact' = "failed" /\ pc' = "done" /\ exit' = "error"
        /\ message' = "OSError: cannot open the output"
  /\ UNCHANGED <<script, sims, dir, baselineFile, sim, baselines, index, values,
                 vi, sheets, summaries>>

\* lines 105-128
VValueRows(value) ==
  VehicleRows(baselines, Accumulate(dir, PerSimFiles(index, value), 1, EmptyDict), 1)

\* lines 104-160: one iteration of the value loop
VProcessValue ==
  /\ script = "veh" /\ pc = "values" /\ vi <= Len(values)
  /\ LET value == values[vi]
         df == VValueRows(value)
     IN  /\ sheets' = Append(sheets, [name |-> Str(value), rows |-> df])
         /\ summaries' = Append(summaries, SummaryRow(value, Column(df, "delay_s")))
  /\ vi' = vi + 1
  /\ UNCHANGED <<script, sims, dir, baselineFile, pc, sim, baselines, index,
                 values, artifact, exit, message>>

\* lines 162-164
VWriteSummary ==
  /\ script = "veh" /\ pc = "values" /\ vi > Len(values)
  /\ sheets' = IF summaries # <<>>
               THEN Append(sheets, [name |-> SummaryName, rows |-> SortByValue(summaries)])
               ELSE sheets
  /\ pc' = "close"
  /\ UNCHANGED <<script, sims, dir, baselineFile, sim, baselines, index, values,
                 vi, summaries, artifact, exit, message>>

\* the end of the with block and line 166
VCloseWriter ==
  /\ script = "veh" /\ pc = "close"
  /\ IF sheets # <<>>
     THEN artifact' = "saved" /\ exit' = "ok" /\ message' = "Excel written"
     ELSE artifact' = "failed" /\ exit' = "error"
          /\ message' = "IndexError: At least one sheet must be visible"
  /\ pc' = "done"
  /\ UNCHANGED <<script, sims, dir, baselineFile, sim, baselines, index, values,
                 vi, sheets, summaries>>

Next ==
  \/ LoadBaseline
  \/ Discover
  \/ OpenWriter
  \/ ProcessValue
  \/ WriteSummary
  \/ CloseWriter
  \/ VLoadBaseline
  \/ VDiscover
  \/ VOpenWriter
  \/ VProcessValue
  \/ VWriteSummary
  \/ VCloseWriter

Spec == Init /\ [][Next]_vars

(***************************************************************************)
(* The two parsers on their own: a file of at most MaxRecs records, or one *)
(* that cannot be parsed, is handed to parse_stop_delays or to             *)
(* extract_pt_durations; the returned mapping is kept in baselines.        *)
(***************************************************************************)
\* stopinfo records: stop A with delays 3, 1, 2, nan, none (0) and junk; an
\* empty busStop beside stop B; both ids; no id; stop C with junk only
StopRecords ==
  { StopInfo(Attr("A"), NoText, Attr(NumText(3))),
    StopInfo(Attr("A"), NoText, Attr(NumText(1))),
    StopInfo(Attr("A"), NoText, Attr(NumText(2))),
    StopInfo(Attr("A"), NoText, Attr(NanText)),
    StopInfo(NoText, Attr("A"), Absent(ZeroText)),
    StopInfo(Attr("A"), NoText, Attr(JunkText)),
    StopInfo(Attr(""), Attr("B"), Attr(NumText(2))),
    StopInfo(Attr("B"), Attr("A"), Attr(NumText(-5))),
    StopInfo(NoText, NoText, Attr(NumText(4))),
    StopInfo(Attr("C"), NoText, Attr(JunkText)) }

Numeric7 == <<"7">>
EmptyType == Attr(<<>>)
LowerBusType == Attr(<<"b", "u", "s">>)

\* tripinfo records: with a bus type, with another type, without a type
\* (numeric and other id), with an empty vType, with two empty types, with a
\* type in vtype, with a duration of 0
TripRecords ==
  { TripInfo(Attr(Bus1), NoChars, BusType, NoChars, Attr(NumText(10)), NoNum, NoNum),
    TripInfo(Attr(Bus1), NoChars, CarType, NoChars, Attr(NumText(8)), NoNum, NoNum),
    TripInfo(Attr(Numeric7), NoChars, NoChars, NoChars, Attr(NumText(5)), NoNum, NoNum),
    TripInfo(Attr(Bus2), NoChars, NoChars, NoChars, Attr(NumText(4)), NoNum, NoNum),
    TripInfo(Attr(Bus2), NoChars, EmptyType, NoChars, Attr(NumText(6)), NoNum, NoNum),
    TripInfo(Attr(Bus3), NoChars, EmptyType, EmptyType, Attr(NumText(2)), NoNum, NoNum),
    TripInfo(Attr(Numeric7), NoChars, NoChars, LowerBusType, Attr(NumText(3)), NoNum, NoNum),
    TripInfo(NoChars, Attr(Bus3), NoChars, CarType, NoNum, Attr(NumText(9)), Attr(NumText(2))),
    TripInfo(Attr(Bus3), NoChars, BusType, NoChars, Attr(NumText(0)), NoNum, NoNum) }

FilesOf(records) ==
  {BadFile} \cup {File(recs) : recs \in UNION {[1..k -> records] : k \in 0..MaxRecs}}

InitParsers ==
  /\ \/ script = "parse_stop_delays" /\ baselineFile \in FilesOf(StopRecords)
     \/ script = "extract_pt_durations" /\ baselineFile \in FilesOf(TripRecords)
  /\ pc = "call"
  /\ sims = 1
  /\ dir = <<>>
  /\ sim = 0
  /\ baselines = EmptyDict
  /\ index = EmptyDict
  /\ values = <<>>
  /\ vi = 1
  /\ sheets = <<>>
  /\ summaries = <<>>
  /\ artifact = "none"
  /\ exit = "running"
  /\ message = ""

\* export_pt_delay_excel.parse_stop_delays(path): returns in every case
CallParseStopDelays ==
  /\ script = "parse_stop_delays" /\ pc = "call"
  /\ baselines' = parse_stop_delays(baselineFile)
  /\ message' = IF baselineFile.ok THEN message ELSE "Warning: skipping malformed XML"
  /\ pc' = "returned"
  /\ exit' = "ok"
  /\ UNCHANGED <<script, sims, dir, baselineFile, sim, index, values, vi, sheets,
                 summaries, artifact>>

\* get_table_of_old_methode.extract_pt_durations(path): returns in every case
CallExtractPtDurations ==
  /\ script = "extract_pt_durations" /\ pc = "call"
  /\ baselines' = extract_pt_durations(baselineFile)
  /\ message' = IF baselineFile.ok THEN message ELSE "Warning: skipping malformed XML"
  /\ pc' = "returned"
  /\ exit' = "ok"
  /\ UNCHANGED <<script, sims, dir, baselineFile, sim, index, values, vi, sheets,
                 summaries, artifact>>

NextParsers ==
  \/ CallParseStopDelays
  \/ CallExtractPtDurations

SpecParsers == InitParsers /\ [][NextParsers]_vars

(***************************************************************************)
(* What the claims speak of, stated from the inputs and the output.        *)
(***************************************************************************)
\* the sheets written for values (the only other sheet is the summary)
ValueSheets == {i \in DOMAIN sheets : sheets[i].name # SummaryName}
SummarySheets == {i \in DOMAIN sheets : sheets[i].name = SummaryName}

\* the value sheets a state is examined for: the one written last, and all
\* of them once the run has ended
Written == IF pc = "done" THEN ValueSheets ELSE ValueSheets \cap {Len(sheets)}

\* the occurrences of an identity in a measurement set
ListOf(d, k) == IF Has(d, k) THEN d.at[k] ELSE <<>>

\* x is the k-th smallest element of l
IsKthSmallest(l, k, x) ==
  /\ x \in Range(l)
  /\ Cardinality({i \in DOMAIN l : FLt(l[i], x)}) < k
  /\ k <= Cardinality({i \in DOMAIN l : FLe(l[i], x)})

\* the listing entries whose name carries (value, replicate)
Matching(kind, v, s) ==
  {i \in DOMAIN dir : /\ dir[i].name.kind = kind
                      /\ DigitsToInt(dir[i].name.v) = v
                      /\ DigitsToInt(dir[i].name.s) = s}
Last(S) == CHOOSE i \in S : \A j \in S : j <= i

\* the perturbed file of (value, replicate): the last listing entry that
\* carries the pair; it is missing when there is none
PerturbedMissing(v, s) == Matching("stop_events", v, s) = {}
PerturbedFile(v, s) ==
  IF PerturbedMissing(v, s) THEN BadFile ELSE dir[Last(Matching("stop_events", v, s))].data

\* the perturbed measurement set of (value, replicate)
PerturbedSet(v, s) == parse_stop_delays(PerturbedFile(v, s))

\* the baseline file of a replicate: the first existing one of
\* stop_events_baseline_<s>.xml and stop_events_0_<s>.xml
Exists(n) == \E i \in DOMAIN dir : dir[i].name = n
DataOf(n) == dir[CHOOSE i \in DOMAIN dir : dir[i].name = n].data
ExplicitName(s) == Name("stop_baseline", <<>>, IntToDigits(s), "")
LegacyName(s) == Name("stop_events", <<0>>, IntToDigits(s), "")
BaselineMissing(s) == ~Exists(ExplicitName(s)) /\ ~Exists(LegacyName(s))
BaselineFileOf(s) ==
  IF Exists(ExplicitName(s)) THEN DataOf(ExplicitName(s))
  ELSE IF Exists(LegacyName(s)) THEN DataOf(LegacyName(s))
  ELSE BadFile
BaselineSet(s) == parse_stop_delays(BaselineFileOf(s))

\* no usable baseline measurement at all
NoUsableBaseline ==
  IF script = "stop" THEN \A s \in 1..sims : BaselineSet(s).keys = <<>>
  ELSE extract_pt_durations(baselineFile).keys = <<>>

\* the rows of sheet i for replicate s and stop x
RowsOf(i, s, x) ==
  {j \in DOMAIN sheets[i].rows : sheets[i].rows[j].sim = s /\ sheets[i].rows[j].stop = x}

\* the enumeration of values a script reports
RequestedValues == {1000 * k : k \in 1..33} \cup {36000 + 2000 * k : k \in 0..11}
DiscoveredValues ==
  {DigitsToInt(dir[i].name.v) : i \in {j \in DOMAIN dir : dir[j].name.kind = "tripinfo"}}
EnumeratedValues == IF script = "stop" THEN RequestedValues ELSE DiscoveredValues

ZeroSummary(v) ==
  [value |-> v, count |-> 0, mean |-> F(0), median |-> F(0), p10 |-> F(0),
   p90 |-> F(0), min |-> F(0), max |-> F(0)]

(***************************************************************************)
(* C1.  Stop-delay report: in the sheet of every requested value, for      *)
(* every replicate with a usable baseline and every stop id with b         *)
(* baseline and p perturbed occurrences, there are exactly min(b, p) rows, *)
(* with occurrence 1..min(b, p), row k pairing the k-th smallest baseline  *)
(* delay with the k-th smallest perturbed delay (none when the stop is in  *)
(* one set only); every row's measurements are elements of the parsed      *)
(* lists.  Delays are finite numbers.                                      *)
(***************************************************************************)
C1_SheetAligned(i) ==
  LET v == values[i]
      rows == sheets[i].rows
  IN  /\ \A j \in DOMAIN rows :
           /\ rows[j].value = v
           /\ rows[j].sim \in DOMAIN baselines
           /\ rows[j].delay_baseline_s \in Range(ListOf(baselines[rows[j].sim], rows[j].stop))
           /\ rows[j].delay_mixed_s \in Range(ListOf(PerturbedSet(v, rows[j].sim), rows[j].stop))
      /\ \A s \in DOMAIN baselines :
           LET base == baselines[s]
               mixed == PerturbedSet(v, s)
           IN  \A x \in Range(base.keys) \cup Range(mixed.keys) :
                 LET n == Min(Len(ListOf(base, x)), Len(ListOf(mixed, x)))
                     R == RowsOf(i, s, x)
                 IN  /\ Cardinality(R) = n
                     /\ {rows[j].occurrence : j \in R} = 1..n
                     /\ \A j \in R :
                          /\ IsKthSmallest(ListOf(base, x), rows[j].occurrence,
                                           rows[j].delay_baseline_s)
                          /\ IsKthSmallest(ListOf(mixed, x), rows[j].occurrence,
                                           rows[j].delay_mixed_s)

C3_NoBaselineIsFatal ==
  NoUsableBaseline =>
    /\ sheets = <<>>
    /\ pc = "done" => exit = "error" /\ message # "" /\ message # "Excel written"

(***************************************************************************)
(* C4.  Both scripts: the sheets are written in the order of the value     *)
(* enumeration, each value once under its own name; the summary sheet is   *)
(* written only after the last value sheet, nothing is written after it,   *)
(* and its rows are one per enumerated value in ascending order of value.  *)
(***************************************************************************)
C4_InOrder(E, i) ==
  IF sheets[i].name = SummaryName
  THEN /\ i = Len(E) + 1
       /\ Len(sheets[i].rows) = Len(E)
       /\ \A j \in DOMAIN E : sheets[i].rows[j].value = E[j]
  ELSE i <= Len(E) /\ sheets[i].name = Str(E[i])

KthSmallest(l, k) == CHOOSE x \in Range(l) : IsKthSmallest(l, k, x)

\* the rows replicate s gives for value v from its own baseline and
\* perturbed file alone
OwnRows(v, s) ==
  LET base == BaselineSet(s)
      mixed == PerturbedSet(v, s)
  IN  UNION { { [value |-> v, sim |-> s, stop |-> x, occurrence |-> k,
                 delay_baseline_s |-> KthSmallest(base.at[x], k),
                 delay_mixed_s |-> KthSmallest(mixed.at[x], k),
                 delay_delta_s |-> FSub(KthSmallest(mixed.at[x], k),
                                        KthSmallest(base.at[x], k))] :
                k \in 1..Min(Len(base.at[x]), Len(mixed.at[x])) } :
              x \in Range(base.keys) \cap Range(mixed.keys) }

\* a row of a stop-delay sheet without the merged per-stop mean
Plain(r) ==
  [value |-> r.value, sim |-> r.sim, stop |-> r.stop, occurrence |-> r.occurrence,
   delay_baseline_s |-> r.delay_baseline_s, delay_mixed_s |-> r.delay_mixed_s,
   delay_delta_s |-> r.delay_delta_s]

SimRows(i, s) == {j \in DOMAIN sheets[i].rows : sheets[i].rows[j].sim = s}

C5_SheetTolerant(i) ==
  \A s \in 1..sims :
    IF PerturbedMissing(values[i], s) \/ ~PerturbedFile(values[i], s).ok
    THEN SimRows(i, s) = {}
    ELSE BaselineSet(s).keys # <<>> =>
           /\ {Plain(sheets[i].rows[j]) : j \in SimRows(i, s)} = OwnRows(values[i], s)
           /\ Cardinality(SimRows(i, s)) = Cardinality(OwnRows(values[i], s))

ValueFiles(v) ==
  {i \in DOMAIN dir : dir[i].name.kind = "tripinfo" /\ DigitsToInt(dir[i].name.v) = v}
KeptIn(v, vid) == {i \in ValueFiles(v) : Has(extract_pt_durations(dir[i].data), vid)}

RECURSIVE SumOver(_, _)
SumOver(S, vid) ==
  IF S = {} THEN F(0)
  ELSE LET i == CHOOSE k \in S : TRUE
       IN  FAdd(extract_pt_durations(dir[i].data).at[vid], SumOver(S \ {i}, vid))

C6_SheetAveraged(i) ==
  LET v == values[i]
      rows == sheets[i].rows
  IN  /\ \A j \in DOMAIN rows : Has(baselines, rows[j].vehicle_id)
      /\ \A vid \in Range(baselines.keys) :
           LET K == KeptIn(v, vid)
               R == {j \in DOMAIN rows : rows[j].vehicle_id = vid}
           IN  IF K = {} THEN R = {}
               ELSE /\ Cardinality(R) = 1
                    /\ \A j \in R :
                         /\ rows[j].sims_count = Cardinality(K)
                         /\ rows[j].avg_duration_s = FDivInt(SumOver(K, vid), Cardinality(K))
                         /\ rows[j].baseline_duration_s = baselines.at[vid]
                         /\ rows[j].delay_s = FSub(rows[j].avg_duration_s, baselines.at[vid])

C7_ArtifactAlwaysWritten ==
  (pc = "done" /\ ~NoUsableBaseline /\ message # "OSError: cannot open the output") =>
    artifact = "saved" /\ SummarySheets # {}

(***************************************************************************)
(* C8.  Stop-delay report: replicate s has a baseline exactly when the     *)
(* first existing file of stop_events_baseline_<s>.xml, stop_events_0_<s>  *)
(* .xml parses to a non-empty set, and then it is that file's set; a       *)
(* replicate without one has no row in any sheet, and a row of replicate s *)
(* carries a baseline delay of replicate s's own baseline file.            *)
(***************************************************************************)
C8_BaselineResolution ==
  script = "stop" =>
    /\ DOMAIN baselines \subseteq 1..sims
    /\ \A s \in 1..sims :
         s < sim =>
           IF BaselineMissing(s) \/ BaselineSet(s).keys = <<>>
           THEN s \notin DOMAIN baselines
           ELSE s \in DOMAIN baselines /\ baselines[s] = BaselineSet(s)
    /\ \A i \in Written : \A j \in DOMAIN sheets[i].rows :
         LET r == sheets[i].rows[j]
         IN  /\ r.sim \in 1..sims
             /\ ~BaselineMissing(r.sim)
             /\ Has(BaselineSet(r.sim), r.stop)
             /\ IsKthSmallest(BaselineSet(r.sim).at[r.stop], r.occurrence, r.delay_baseline_s)

\* a finished run where stop_events_baseline_1.xml exists and parses to
\* nothing, stop_events_0_1.xml is usable, a perturbed file of replicate 1 is
\* parseable, and replicate 1 has no baseline and no row
C8_Witness ==
  /\ script = "stop" /\ pc = "done" /\ exit = "ok"
  /\ Exists(ExplicitName(1)) /\ Exists(LegacyName(1))
  /\ parse_stop_delays(DataOf(LegacyName(1))).keys # <<>>
  /\ 1 \notin DOMAIN baselines
  /\ \E i \in ValueSheets :
       /\ ~PerturbedMissing(values[i], 1) /\ PerturbedFile(values[i], 1).ok
       /\ SimRows(i, 1) = {}

(***************************************************************************)
(* C9.  Both scripts: the index holds at most one file per (value,         *)
(* replicate) pair, the later listing entry; in the vehicle-duration       *)
(* report sims_count never exceeds the number of distinct replicate        *)
(* indices discovered for the value.                                       *)
(***************************************************************************)
C9_OneFilePerReplicate ==
  /\ script = "stop" =>
       \A key \in DOMAIN index :
         index[key] = Last(Matching("stop_events", key[1], key[2]))
  /\ script = "veh" =>
       /\ \A v \in Range(index.keys) :
            \A a, b \in DOMAIN index.at[v] :
              index.at[v][a].sim = index.at[v][b].sim => a = b
       /\ \A i \in Written : \A j \in DOMAIN sheets[i].rows :
            sheets[i].rows[j].sims_count <=
              Cardinality({DigitsToInt(dir[k].name.s) : k \in ValueFiles(values[i])})

(***************************************************************************)
(* C10.  Vehicle-duration report: every duration extract_pt_durations      *)
(* stores is strictly greater than 0, so every baseline_duration_s and     *)
(* avg_duration_s of the report is a positive number.                      *)
(***************************************************************************)
Positive(x) == FLt(F(0), x)

VidOf(el) == AttrOr(el.id, el.tripid, <<>>)
TypeTexts(el) == {a.text : a \in {x \in {el.vType, el.vtype} : x.present}}
HasBus(t) == Contains(<<"b", "u", "s">>, Lower(t))
ClassifiedPublicTransport(el) ==
  \/ TypeTexts(el) # {} /\ \A t \in TypeTexts(el) : HasBus(t)
  \/ TypeTexts(el) = {} /\ ~IsDigit(VidOf(el))

C11_KeptOnlyIfPublicTransport ==
  (script = "extract_pt_durations" /\ pc = "returned") =>
    \A vid \in Range(baselines.keys) :
      \E i \in DOMAIN baselineFile.recs :
        LET el == baselineFile.recs[i]
        IN  /\ VidOf(el) = vid
            /\ ClassifiedPublicTransport(el)
            /\ DurationOf(el).ok
            /\ DurationOf(el).val = baselines.at[vid]

(***************************************************************************)
(* C12.  parse_stop_delays returns, for each stop id (busStop, or stop     *)
(* when busStop is absent or empty), the list of exactly the delays of     *)
(* that stop's records: a record without a delay attribute gives 0, one    *)
(* with an unparseable delay gives nothing, one without a stop id gives    *)
(* nothing; every list is in ascending order of value, no id maps to an    *)
(* empty list, and a file that cannot be parsed gives the empty mapping    *)
(* with no exception.                                                      *)
(***************************************************************************)
StopIdOf(el) ==
  IF el.busStop.present /\ el.busStop.text # "" THEN el.busStop.text
  ELSE IF el.stop.present THEN el.stop.text
  ELSE ""

Contribution(el) ==
  IF ~el.delay.present THEN <<F(0)>>
  ELSE IF ParseFloat(el.delay.text).ok THEN <<ParseFloat(el.delay.text).val>>
  ELSE <<>>

\* the delays of stop x in file order
RECURSIVE DelaysOfStop(_, _)
DelaysOfStop(recs, x) ==
  IF recs = <<>> THEN <<>>
  ELSE (IF StopIdOf(recs[1]) = x THEN Contribution(recs[1]) ELSE <<>>)
       \o DelaysOfStop(Tail(recs), x)

Count(l, v) == Cardinality({i \in DOMAIN l : l[i] = v})
SameElements(a, b) ==
  /\ Len(a) = Len(b)
  /\ \A v \in Range(a) \cup Range(b) : Count(a, v) = Count(b, v)

\* no later element is smaller than an earlier one
InAscendingOrder(l) == \A i, j \in DOMAIN l : i < j => ~FLt(l[j], l[i])

StopIdsOf(recs) == {StopIdOf(recs[i]) : i \in DOMAIN recs} \ {""}

ReturnsSortedDelays(file, result) ==
  /\ ~file.ok => result = EmptyDict
  /\ file.ok =>
       /\ Range(result.keys) = {x \in StopIdsOf(file.recs) : DelaysOfStop(file.recs, x) # <<>>}
       /\ \A x \in Range(result.keys) :
            /\ result.at[x] # <<>>
            /\ SameElements(result.at[x], DelaysOfStop(file.recs, x))
            /\ InAscendingOrder(result.at[x])

C12_ParseStopDelays ==
  (script = "parse_stop_delays" /\ pc = "returned") =>
    exit = "ok" /\ ReturnsSortedDelays(baselineFile, baselines)

\* the same for the files in which no delay attribute reads "nan"
NoNaNDelay(file) ==
  \A i \in DOMAIN file.recs :
    file.recs[i].delay.present => file.recs[i].delay.text # NanText

ParseStopDelaysOfNumbers ==
  (script = "parse_stop_delays" /\ pc = "returned" /\ NoNaNDelay(baselineFile)) =>
    exit = "ok" /\ ReturnsSortedDelays(baselineFile, baselines)

====
